---------------------------- MODULE Spec2Model ----------------------------
(***************************************************************************)
(* llmfit: the hardware capability detector (src/src/hardware.rs,          *)
(* SystemSpecs::detect and its GPU probe cascade) and the fit engine that  *)
(* grades a model against the detected snapshot.                           *)
(*                                                                         *)
(* Numbers.  The f64 gigabyte fields are held exactly as fixed-point       *)
(* values in steps of 1/GbScale GB.  Byte counts are real byte counts,     *)
(* drawn from multiples of BytesPerGb / GbScale so that the division by    *)
(* 1024^3 is exact in this representation.                                 *)
(*                                                                         *)
(* Environment.  What the operating system, the file system and the        *)
(* external tools answer is unknown to the program: each answer is drawn   *)
(* when the program asks for it.  lspci is spawned anew at every call and  *)
(* each spawn has its own outcome.  File and tool texts are held as they   *)
(* are after trim().                                                       *)
(***************************************************************************)
EXTENDS Integers, Sequences, FiniteSets, TLC

VARIABLES
    pc,                 \* position of detect() / detect_gpu() / detect_intel_gpu()
    sysinfo,            \* what sysinfo::System answered: <<>> before the query
    total_ram_gb,       \* local of detect()
    available_ram_gb,   \* local of detect()
    total_cpu_cores,    \* local of detect()
    cpu_name,           \* local of detect()
    output,             \* the `output` binding of the latest Command::output()
    verdict,            \* per probe: "untried", "negative" or "positive"
    drm,                \* outcome of read_dir("/sys/class/drm")
    idx,                \* detect_intel_gpu: index of the entry being visited
    lspci,              \* outcome of the latest spawn of lspci: <<>> before the first
    intel_ret,          \* return value of detect_intel_gpu: <<>> while not returned
    apple_ret,          \* return value of detect_apple_gpu: <<>> while not returned
    gpu,                \* return value of detect_gpu: <<>> while not returned
    calls,              \* every external process spawned and file read, in order
    specs,              \* the SystemSpecs detect() returned: <<>> before
    fit,                \* the latest FitAssessment: <<>> before the first
    prev_fit,           \* the FitAssessment before the latest
    gpu_line,           \* the GPU line display() printed: <<>> before
    gpu_info            \* the gpu_info draw_system_bar formatted: <<>> before

vars == <<pc, sysinfo, total_ram_gb, available_ram_gb, total_cpu_cores, cpu_name,
          output, verdict, drm, idx, lspci, intel_ret, apple_ret, gpu,
          calls, specs, fit, prev_fit, gpu_line, gpu_info>>

---------------------------------------------------------------------------
(* Option<T> *)
None == <<>>
Some(x) == <<x>>
IsSome(o) == o /= <<>>
Unwrap(o) == o[1]

(* 1024.0 of `vram_mb / 1024.0` *)
MbPerGb == 1024
(* 1024.0 * 1024.0 * 1024.0 *)
BytesPerGb == 1073741824
(* fixed-point steps per GB of the f64 fields *)
GbScale == MbPerGb

(* vram_mb / 1024.0 *)
MbToGb_noDivide(vram_mb) == vram_mb * GbScale
MbToGb(vram_mb) == (vram_mb * GbScale) \div MbPerGb

(* bytes as f64 / (1024.0 * 1024.0 * 1024.0) *)
BytesToGb(bytes) == bytes \div (BytesPerGb \div GbScale)

---------------------------------------------------------------------------
(* Bounds of the environment *)
MaxCpus == 2
MaxCards == 2

TotalMemoryBytes == {1073741824}
AvailableMemoryBytes == {536870912, 1610612736}
CpuBrands == {"Intel(R) Core(TM)"}

(* sysinfo: total_memory(), available_memory(), cpus() (each cpu by its brand) *)
SysinfoAnswers ==
    { [total |-> t, available |-> a, cpus |-> [k \in 1..n |-> b]] :
        t \in TotalMemoryBytes, a \in AvailableMemoryBytes,
        n \in 0..MaxCpus, b \in CpuBrands }

(* Command::output(): Err (tool not found), a nonzero exit status, stdout that is
   not UTF-8, or stdout text.  A text is a sequence of lines. *)
SpawnFailures == {"notfound", "exitfail", "nonutf8"}
Outcomes(texts) ==
    { [st |-> s, text |-> <<>>] : s \in SpawnFailures }
    \cup { [st |-> "ok", text |-> t] : t \in texts }

(* nvidia-smi prints one line per GPU, the MB of each *)
NvidiaTexts == { <<>>, <<0>>, <<512>>, <<1024>>, <<1024, 1024>> }
NvidiaOutcomes == Outcomes(NvidiaTexts)

(* rocm-smi: its text is never read, so one text stands for all *)
RocmTexts == { <<>> }
RocmOutcomes == Outcomes(RocmTexts)

(* a line of lspci or system_profiler is the set of the (lowercased) markers it
   contains *)
LspciTexts ==
    { << {"nvidia"} >>,
      << {"intel"}, {"arc"} >>,
      << {"nvidia"}, {"intel", "arc"} >> }
LspciOutcomes == Outcomes(LspciTexts)

SysprofTexts ==
    { << {"amd"} >>,
      << {"chipset"}, {"apple m"} >>,
      << {"apple gpu"} >> }
SysprofOutcomes == Outcomes(SysprofTexts)

(* One entry of /sys/class/drm: device/vendor (its text, or unreadable) and
   device/mem_info_vram_total (unreadable; readable but not a u64; a u64). *)
VendorIntel == "0x8086"
Vendors == {VendorIntel, "0x10de", "unreadable"}
VramBytes == {0, 536870912}
VramFiles ==
    { [readable |-> FALSE, num |-> None], [readable |-> TRUE, num |-> None] }
    \cup { [readable |-> TRUE, num |-> Some(b)] : b \in VramBytes }
DrmEntries == { [vendor |-> v, vram |-> f] : v \in Vendors, f \in VramFiles }
SeqUpTo(S, n) == UNION { [1..k -> S] : k \in 0..n }
DrmOutcomes ==
    { [ok |-> FALSE, entries |-> <<>>] }
    \cup { [ok |-> TRUE, entries |-> e] : e \in SeqUpTo(DrmEntries, MaxCards) }

(* the probes of detect_gpu, in the order of its code *)
Cascade == <<"nvidia", "rocm", "intel", "apple">>
Probes == {"nvidia", "rocm", "intel", "apple"}

---------------------------------------------------------------------------
inventory == <<sysinfo, total_ram_gb, available_ram_gb, total_cpu_cores, cpu_name>>
intel_state == <<drm, idx, lspci, intel_ret>>
fit_state == <<specs, fit, prev_fit>>
ui_state == <<gpu_line, gpu_info>>

(* detect(), lines 24-28 *)
UnknownCpu == "Unknown CPU"
CpuNameOf(cpus) == IF Len(cpus) = 0 THEN UnknownCpu ELSE cpus[1]

(* detect(), lines 16-28: the memory and CPU inventory *)
detect_sysinfo ==
    /\ pc = "sysinfo"
    /\ \E s \in SysinfoAnswers :
        /\ sysinfo' = Some(s)
        /\ total_ram_gb' = BytesToGb(s.total)
        /\ available_ram_gb' = BytesToGb(s.available)
        /\ total_cpu_cores' = Len(s.cpus)
        /\ cpu_name' = CpuNameOf(s.cpus)
    /\ pc' = "nvidia"
    /\ UNCHANGED ui_state
    /\ UNCHANGED <<output, verdict, intel_state, apple_ret, gpu, calls, fit_state>>

(* vram_str.trim().parse::<f64>(): one number, nothing else *)
ParseF64(text) == IF Len(text) = 1 THEN Some(text[1]) ELSE None

(* lines 45-51: the let-chain of the nvidia-smi probe *)
NvidiaPositive(o) == o.st = "ok" /\ IsSome(ParseF64(o.text))
(* line 52 *)
NvidiaTriple(o) == <<TRUE, Some(MbToGb(Unwrap(ParseF64(o.text)))), FALSE>>

(* detect_gpu, lines 45-53: nvidia-smi *)
detect_gpu_nvidia_fallthrough ==
    /\ pc = "nvidia"
    /\ \E o \in NvidiaOutcomes :
        /\ output' = Some(o)
        /\ IF NvidiaPositive(o)
           THEN /\ gpu' = Some(NvidiaTriple(o))
                /\ verdict' = [verdict EXCEPT !["nvidia"] = "positive"]
           ELSE /\ gpu' = gpu
                /\ verdict' = [verdict EXCEPT !["nvidia"] = "negative"]
    /\ pc' = "rocm"
    /\ calls' = Append(calls, "nvidia-smi")
    /\ UNCHANGED ui_state
    /\ UNCHANGED <<inventory, intel_state, apple_ret, fit_state>>
detect_gpu_nvidia ==
    /\ pc = "nvidia"
    /\ \E o \in NvidiaOutcomes :
        /\ output' = Some(o)
        /\ IF NvidiaPositive(o)
           THEN /\ gpu' = Some(NvidiaTriple(o))
                /\ verdict' = [verdict EXCEPT !["nvidia"] = "positive"]
                /\ pc' = "build"
           ELSE /\ gpu' = gpu
                /\ verdict' = [verdict EXCEPT !["nvidia"] = "negative"]
                /\ pc' = "rocm"
    /\ calls' = Append(calls, "nvidia-smi")
    /\ UNCHANGED ui_state
    /\ UNCHANGED <<inventory, intel_state, apple_ret, fit_state>>

(* lines 56-60: output() is Ok and status.success(); stdout is not looked at, so
   exit status 0 with stdout that is not UTF-8 passes as well *)
RocmPositive(o) == o.st /= "notfound" /\ o.st /= "exitfail"
(* line 61 *)
RocmTriple == <<TRUE, None, FALSE>>

(* detect_gpu, lines 56-62: rocm-smi *)
detect_gpu_rocm ==
    /\ pc = "rocm"
    /\ \E o \in RocmOutcomes :
        /\ output' = Some(o)
        /\ IF RocmPositive(o)
           THEN /\ gpu' = Some(RocmTriple)
                /\ verdict' = [verdict EXCEPT !["rocm"] = "positive"]
                /\ pc' = "build"
           ELSE /\ gpu' = gpu
                /\ verdict' = [verdict EXCEPT !["rocm"] = "negative"]
                /\ pc' = "intel_read_dir"
    /\ calls' = Append(calls, "rocm-smi")
    /\ UNCHANGED ui_state
    /\ UNCHANGED <<inventory, intel_state, apple_ret, fit_state>>

(* line 66 *)
IntelTriple(vram) == <<TRUE, Some(vram), FALSE>>

(* detect_intel_gpu returns `ret`; detect_gpu goes on from line 65 *)
IntelReturns(ret) ==
    /\ intel_ret' = Some(ret)
    /\ IF IsSome(ret)
       THEN /\ gpu' = Some(IntelTriple(Unwrap(ret)))
            /\ verdict' = [verdict EXCEPT !["intel"] = "positive"]
            /\ pc' = "build"
       ELSE /\ gpu' = gpu
            /\ verdict' = [verdict EXCEPT !["intel"] = "negative"]
            /\ pc' = "apple"

(* the for loop of line 85 goes to entry i, or is left *)
IntelLoopTo(i, entries) ==
    pc' = IF i <= Len(entries) THEN "intel_vendor" ELSE "intel_fallback"

(* detect_intel_gpu, line 84: read_dir("/sys/class/drm") *)
detect_intel_gpu_read_dir ==
    /\ pc = "intel_read_dir"
    /\ \E d \in DrmOutcomes :
        /\ drm' = Some(d)
        /\ IF d.ok THEN IntelLoopTo(1, d.entries) ELSE pc' = "intel_fallback"
    /\ idx' = 1
    /\ calls' = Append(calls, "read_dir")
    /\ UNCHANGED ui_state
    /\ UNCHANGED <<inventory, output, verdict, lspci, intel_ret, apple_ret, gpu,
                   fit_state>>

(* lines 91-95: the entry is skipped when its vendor file is read and is not 0x8086 *)
VendorSkips(vendor) == vendor /= "unreadable" /\ vendor /= VendorIntel

(* detect_intel_gpu, lines 86-95 *)
detect_intel_gpu_vendor ==
    /\ pc = "intel_vendor"
    /\ LET entries == Unwrap(drm).entries
       IN  IF VendorSkips(entries[idx].vendor)
           THEN idx' = idx + 1 /\ IntelLoopTo(idx + 1, entries)
           ELSE idx' = idx /\ pc' = "intel_vram"
    /\ calls' = Append(calls, "vendor")
    /\ UNCHANGED ui_state
    /\ UNCHANGED <<inventory, output, verdict, drm, lspci, intel_ret, apple_ret, gpu,
                   fit_state>>

(* lines 100-102: the VRAM file is read, parses as u64 and is > 0 *)
VramFound(f) == f.readable /\ IsSome(f.num) /\ Unwrap(f.num) > 0

(* detect_intel_gpu, lines 99-107 *)
detect_intel_gpu_vram ==
    /\ pc = "intel_vram"
    /\ LET f == Unwrap(drm).entries[idx].vram
       IN  IF VramFound(f)
           THEN IntelReturns(Some(BytesToGb(Unwrap(f.num))))
           ELSE pc' = "intel_lspci" /\ UNCHANGED <<intel_ret, gpu, verdict>>
    /\ calls' = Append(calls, "mem_info_vram_total")
    /\ UNCHANGED ui_state
    /\ UNCHANGED <<inventory, output, drm, idx, lspci, apple_ret, fit_state>>

(* lines 115-116 and 135-136: the line contains "intel" and "arc" *)
ArcLine(line) == "intel" \in line /\ "arc" \in line
(* lines 111-116 and 131-136 *)
LspciMatches(o) == o.st = "ok" /\ \E k \in 1..Len(o.text) : ArcLine(o.text[k])

(* lines 111 and 131: every call spawns lspci anew; its outcome does not depend
   on the outcomes of earlier calls *)
LspciAnswers == LspciOutcomes

(* detect_intel_gpu, lines 111-125: lspci inside the loop *)
detect_intel_gpu_lspci ==
    /\ pc = "intel_lspci"
    /\ \E o \in LspciAnswers :
        /\ lspci' = Some(o)
        /\ output' = Some(o)
        /\ IF LspciMatches(o)
           THEN IntelReturns(Some(0)) /\ idx' = idx
           ELSE /\ idx' = idx + 1
                /\ IntelLoopTo(idx + 1, Unwrap(drm).entries)
                /\ UNCHANGED <<intel_ret, gpu, verdict>>
    /\ calls' = Append(calls, "lspci")
    /\ UNCHANGED ui_state
    /\ UNCHANGED <<inventory, drm, apple_ret, fit_state>>

(* detect_intel_gpu, lines 131-144: lspci after the loop *)
detect_intel_gpu_fallback ==
    /\ pc = "intel_fallback"
    /\ \E o \in LspciAnswers :
        /\ lspci' = Some(o)
        /\ output' = Some(o)
        /\ IntelReturns(IF LspciMatches(o) THEN Some(0) ELSE None)
    /\ calls' = Append(calls, "lspci")
    /\ UNCHANGED ui_state
    /\ UNCHANGED <<inventory, drm, idx, apple_ret, fit_state>>

(* lines 165-166 *)
AppleLine(line) == "apple m" \in line \/ "apple gpu" \in line
(* lines 164-167 *)
is_apple_gpu(text) == \E k \in 1..Len(text) : AppleLine(text[k])

(* detect_apple_gpu, lines 149-176, given system_profiler's outcome *)
detect_apple_gpu_total(o, available, total) ==
    IF o.st = "ok" /\ is_apple_gpu(o.text) THEN Some(total) ELSE None
detect_apple_gpu(o, available, total) ==
    IF o.st = "ok" /\ is_apple_gpu(o.text) THEN Some(available) ELSE None

(* line 71 *)
AppleTriple_noGpu(vram) == <<FALSE, Some(vram), TRUE>>
AppleTriple(vram) == <<TRUE, Some(vram), TRUE>>
(* line 74 *)
NoGpuTriple == <<FALSE, None, FALSE>>

(* detect_gpu, lines 70-74: system_profiler, and the end of the cascade *)
detect_gpu_apple ==
    /\ pc = "apple"
    /\ \E o \in SysprofOutcomes :
        /\ output' = Some(o)
        /\ LET ret == detect_apple_gpu(o, available_ram_gb, total_ram_gb)
           IN  /\ apple_ret' = Some(ret)
               /\ IF IsSome(ret)
                  THEN /\ gpu' = Some(AppleTriple(Unwrap(ret)))
                       /\ verdict' = [verdict EXCEPT !["apple"] = "positive"]
                  ELSE /\ gpu' = Some(NoGpuTriple)
                       /\ verdict' = [verdict EXCEPT !["apple"] = "negative"]
    /\ pc' = "build"
    /\ calls' = Append(calls, "system_profiler")
    /\ UNCHANGED ui_state
    /\ UNCHANGED <<inventory, intel_state, fit_state>>

(* detect(), lines 30-40: the snapshot is built and returned *)
detect_return ==
    /\ pc = "build"
    /\ specs' = Some([ total_ram_gb     |-> total_ram_gb,
                       available_ram_gb |-> available_ram_gb,
                       total_cpu_cores  |-> total_cpu_cores,
                       cpu_name         |-> cpu_name,
                       has_gpu          |-> Unwrap(gpu)[1],
                       gpu_vram_gb      |-> Unwrap(gpu)[2],
                       unified_memory   |-> Unwrap(gpu)[3] ])
    /\ pc' = "returned"
    /\ UNCHANGED ui_state
    /\ UNCHANGED <<inventory, output, verdict, intel_state, apple_ret, gpu, calls,
                   fit, prev_fit>>

(* the program before detect() is called *)
Init ==
    /\ pc = "sysinfo"
    /\ sysinfo = None
    /\ total_ram_gb = 0
    /\ available_ram_gb = 0
    /\ total_cpu_cores = 0
    /\ cpu_name = ""
    /\ output = None
    /\ verdict = [p \in Probes |-> "untried"]
    /\ drm = None
    /\ idx = 0
    /\ lspci = None
    /\ intel_ret = None
    /\ apple_ret = None
    /\ gpu = None
    /\ calls = <<>>
    /\ specs = None
    /\ fit = None
    /\ prev_fit = None
    /\ gpu_line = None
    /\ gpu_info = None

Next ==
    \/ detect_sysinfo
    \/ detect_gpu_nvidia
    \/ detect_gpu_rocm
    \/ detect_intel_gpu_read_dir
    \/ detect_intel_gpu_vendor
    \/ detect_intel_gpu_vram
    \/ detect_intel_gpu_lspci
    \/ detect_intel_gpu_fallback
    \/ detect_gpu_apple
    \/ detect_return

Spec == Init /\ [][Next]_vars

(* detect() runs to completion: every step that can be taken is taken *)
FairSpec == Spec /\ WF_vars(Next)

---------------------------------------------------------------------------
(* The fit engine: assess(snapshot, model) -> FitAssessment.  tui_ui.rs reads its
   results (fit.run_mode, fit.fit_level, fit.utilization_pct, fit.model); the
   engine itself is modelled from its specification. *)

(* fit-level thresholds, in percent, and the bound utilization_pct is clamped to *)
PerfectMaxPct == 50
GoodMaxPct == 75
MarginalMaxPct == 95
UtilizationCap == 999
(* utilization_pct is held in steps of 1/PctScale percent, rounded down *)
PctScale == 100

(* n GB as a value of the f64 fields *)
Gb(n) == n * GbScale

(* run-mode selection, first matching rule *)
RunModeOf_noGpuCheck(s, m) ==
    IF ~ IsSome(m.min_vram_gb) THEN "CpuOnly"
    ELSE IF ~ IsSome(s.gpu_vram_gb) \/ Unwrap(s.gpu_vram_gb) = 0 THEN "CpuOffload"
    ELSE IF Unwrap(s.gpu_vram_gb) >= Unwrap(m.min_vram_gb) THEN "Gpu"
    ELSE "CpuOffload"
RunModeOf(s, m) ==
    IF ~ IsSome(m.min_vram_gb) THEN "CpuOnly"
    ELSE IF ~ s.has_gpu THEN "CpuOnly"
    ELSE IF ~ IsSome(s.gpu_vram_gb) \/ Unwrap(s.gpu_vram_gb) = 0 THEN "CpuOffload"
    ELSE IF Unwrap(s.gpu_vram_gb) >= Unwrap(m.min_vram_gb) THEN "Gpu"
    ELSE "CpuOffload"

(* memory accounting of the chosen mode *)
MemoryRequired(mode, m) ==
    IF mode = "Gpu" THEN Unwrap(m.min_vram_gb) ELSE m.min_ram_gb
MemoryAvailable(mode, s) ==
    IF mode = "Gpu" THEN Unwrap(s.gpu_vram_gb) ELSE s.available_ram_gb

Clamp(x, lo, hi) == IF x < lo THEN lo ELSE IF x > hi THEN hi ELSE x

(* required / available * 100, clamped to [0, 999]; saturated when nothing is
   available *)
UtilizationPct_inverted(required, available) ==
    IF available <= 0 \/ required <= 0 THEN UtilizationCap * PctScale
    ELSE Clamp((available * 100 * PctScale) \div required, 0, UtilizationCap * PctScale)
UtilizationPct(required, available) ==
    IF available <= 0 THEN UtilizationCap * PctScale
    ELSE Clamp((required * 100 * PctScale) \div available, 0, UtilizationCap * PctScale)

(* utilization <= pct percent, for available > 0 *)
WithinPct(required, available, pct) == required * 100 <= pct * available

(* fit-level thresholds; TooTight when nothing is available *)
FitLevelOf_strict(required, available) ==
    IF available <= 0 THEN "TooTight"
    ELSE IF required * 100 < PerfectMaxPct * available THEN "Perfect"
    ELSE IF WithinPct(required, available, GoodMaxPct) THEN "Good"
    ELSE IF WithinPct(required, available, MarginalMaxPct) THEN "Marginal"
    ELSE "TooTight"
FitLevelOf(required, available) ==
    IF available <= 0 THEN "TooTight"
    ELSE IF WithinPct(required, available, PerfectMaxPct) THEN "Perfect"
    ELSE IF WithinPct(required, available, GoodMaxPct) THEN "Good"
    ELSE IF WithinPct(required, available, MarginalMaxPct) THEN "Marginal"
    ELSE "TooTight"

(* assess(snapshot, model) *)
Assess(s, m) ==
    LET mode == RunModeOf(s, m)
        required == MemoryRequired(mode, m)
        available == MemoryAvailable(mode, s)
    IN  [ model               |-> m,
          run_mode            |-> mode,
          fit_level           |-> FitLevelOf(required, available),
          memory_required_gb  |-> required,
          memory_available_gb |-> available,
          utilization_pct     |-> UtilizationPct(required, available) ]

(* the model catalog: min_vram_gb (optional) and min_ram_gb of each entry *)
CatalogMinVramGb == {4, 12, 30}
CatalogMinRamGb == {8, 15, 16, 19, 20}
Catalog ==
    { [min_vram_gb |-> v, min_ram_gb |-> Gb(r)] :
        v \in {None} \cup { Some(Gb(g)) : g \in CatalogMinVramGb },
        r \in CatalogMinRamGb }

(* the snapshots the fit engine is run on: of the shapes detect() returns *)
FitTotalGb == {32}
FitAvailableGb == {0, 1, 20}
FitVramGb == {0, 24}
FitGpuTriples(available) ==
    { NoGpuTriple, RocmTriple, AppleTriple(available) }
    \cup { IntelTriple(Gb(v)) : v \in FitVramGb }
FitSnapshots ==
    { [ total_ram_gb     |-> Gb(t),
        available_ram_gb |-> Gb(a),
        total_cpu_cores  |-> 1,
        cpu_name         |-> "Intel(R) Core(TM)",
        has_gpu          |-> g[1],
        gpu_vram_gb      |-> g[2],
        unified_memory   |-> g[3] ] :
        t \in FitTotalGb,
        a \in FitAvailableGb,
        g \in UNION { FitGpuTriples(Gb(b)) : b \in FitAvailableGb } }

(* the presentation layer assesses one more catalog entry against the snapshot *)
assess ==
    /\ pc = "returned"
    /\ \E m \in Catalog :
        /\ fit' = Some(Assess(Unwrap(specs), m))
        /\ prev_fit' = fit
    /\ UNCHANGED ui_state
    /\ UNCHANGED <<pc, inventory, output, verdict, intel_state, apple_ret, gpu, calls,
                   specs>>

(* detect() has returned a snapshot; nothing has been assessed yet *)
InitFit ==
    /\ pc = "returned"
    /\ \E s \in FitSnapshots :
        /\ s.unified_memory => s.gpu_vram_gb = Some(s.available_ram_gb)
        /\ specs = Some(s)
        /\ total_ram_gb = s.total_ram_gb
        /\ available_ram_gb = s.available_ram_gb
        /\ total_cpu_cores = s.total_cpu_cores
        /\ cpu_name = s.cpu_name
        /\ gpu = Some(<<s.has_gpu, s.gpu_vram_gb, s.unified_memory>>)
    /\ sysinfo = None
    /\ output = None
    /\ verdict = [p \in Probes |-> "untried"]
    /\ drm = None
    /\ idx = 0
    /\ lspci = None
    /\ intel_ret = None
    /\ apple_ret = None
    /\ calls = <<>>
    /\ fit = None
    /\ prev_fit = None
    /\ gpu_line = None
    /\ gpu_info = None

NextFit == assess

FitSpec == InitFit /\ [][NextFit]_vars

---------------------------------------------------------------------------
(* The two renderings of the snapshot's GPU: SystemSpecs::display (hardware.rs)
   and draw_system_bar (tui_ui.rs).  A rendering is its format string and the
   number formatted into it (None when the string takes none). *)

(* display(), lines 184-199: the GPU line *)
DisplayGpuLine(s) ==
    IF s.has_gpu
    THEN IF s.unified_memory
         THEN [ text |-> "GPU: Apple Silicon (unified memory, {:.2} GB shared)",
                arg  |-> Some(IF IsSome(s.gpu_vram_gb) THEN Unwrap(s.gpu_vram_gb) ELSE 0) ]
         ELSE IF IsSome(s.gpu_vram_gb) /\ Unwrap(s.gpu_vram_gb) > 0
              THEN [ text |-> "GPU: Detected ({:.2} GB VRAM)", arg |-> s.gpu_vram_gb ]
              ELSE IF IsSome(s.gpu_vram_gb)
                   THEN [ text |-> "GPU: Intel Arc (shared system memory)", arg |-> None ]
                   ELSE [ text |-> "GPU: Detected (VRAM unknown)", arg |-> None ]
    ELSE [ text |-> "GPU: Not detected", arg |-> None ]

(* draw_system_bar, lines 39-54: gpu_info *)
BarGpuInfo_zeroIsVram(s) ==
    IF s.has_gpu
    THEN IF s.unified_memory
         THEN [ text |-> "GPU: Apple Silicon ({:.1} GB shared)",
                arg  |-> Some(IF IsSome(s.gpu_vram_gb) THEN Unwrap(s.gpu_vram_gb) ELSE 0) ]
         ELSE IF IsSome(s.gpu_vram_gb) /\ Unwrap(s.gpu_vram_gb) >= 0
              THEN [ text |-> "GPU: {:.1} GB VRAM", arg |-> s.gpu_vram_gb ]
              ELSE IF IsSome(s.gpu_vram_gb)
                   THEN [ text |-> "GPU: Intel Arc (shared memory)", arg |-> None ]
                   ELSE [ text |-> "GPU: detected", arg |-> None ]
    ELSE [ text |-> "GPU: none", arg |-> None ]
BarGpuInfo(s) ==
    IF s.has_gpu
    THEN IF s.unified_memory
         THEN [ text |-> "GPU: Apple Silicon ({:.1} GB shared)",
                arg  |-> Some(IF IsSome(s.gpu_vram_gb) THEN Unwrap(s.gpu_vram_gb) ELSE 0) ]
         ELSE IF IsSome(s.gpu_vram_gb) /\ Unwrap(s.gpu_vram_gb) > 0
              THEN [ text |-> "GPU: {:.1} GB VRAM", arg |-> s.gpu_vram_gb ]
              ELSE IF IsSome(s.gpu_vram_gb)
                   THEN [ text |-> "GPU: Intel Arc (shared memory)", arg |-> None ]
                   ELSE [ text |-> "GPU: detected", arg |-> None ]
    ELSE [ text |-> "GPU: none", arg |-> None ]

(* SystemSpecs::display, lines 178-201 (its GPU line) *)
display ==
    /\ pc = "returned"
    /\ gpu_line' = Some(DisplayGpuLine(Unwrap(specs)))
    /\ UNCHANGED <<pc, inventory, output, verdict, intel_state, apple_ret, gpu, calls,
                   fit_state, gpu_info>>

(* draw_system_bar, lines 38-54 (its gpu_info) *)
draw_system_bar ==
    /\ pc = "returned"
    /\ gpu_info' = Some(BarGpuInfo(Unwrap(specs)))
    /\ UNCHANGED <<pc, inventory, output, verdict, intel_state, apple_ret, gpu, calls,
                   fit_state, gpu_line>>

(* detect(), then the textual summary *)
NextSummary == Next \/ display
SummarySpec == Init /\ [][NextSummary]_vars

(* the values of (has_gpu, gpu_vram_gb, unified_memory) a snapshot can hold,
   rendered both ways: unified_memory is set at line 71 only, together with
   has_gpu *)
UiVramGb ==
    {None} \cup { Some(v) : v \in {0 - Gb(1), 0, 1, Gb(1) \div 2, Gb(1), Gb(8),
                                    Gb(16), Gb(24)} }
UiGpuTriples ==
    { t \in BOOLEAN \X UiVramGb \X BOOLEAN : t[3] => t[1] }
InitUi ==
    /\ pc = "returned"
    /\ \E t \in UiGpuTriples :
      LET h == t[1]  v == t[2]  u == t[3] IN
        /\ specs = Some([ total_ram_gb     |-> Gb(32),
                          available_ram_gb |-> Gb(20),
                          total_cpu_cores  |-> 1,
                          cpu_name         |-> "Intel(R) Core(TM)",
                          has_gpu          |-> h,
                          gpu_vram_gb      |-> v,
                          unified_memory   |-> u ])
        /\ gpu = Some(<<h, v, u>>)
    /\ total_ram_gb = Gb(32)
    /\ available_ram_gb = Gb(20)
    /\ total_cpu_cores = 1
    /\ cpu_name = "Intel(R) Core(TM)"
    /\ sysinfo = None
    /\ output = None
    /\ verdict = [p \in Probes |-> "untried"]
    /\ drm = None
    /\ idx = 0
    /\ lspci = None
    /\ intel_ret = None
    /\ apple_ret = None
    /\ calls = <<>>
    /\ fit = None
    /\ prev_fit = None
    /\ gpu_line = None
    /\ gpu_info = None

NextUi == display \/ draw_system_bar
UiSpec == InitUi /\ [][NextUi]_vars

---------------------------------------------------------------------------
(* Properties of the detector *)

Negative(p) == verdict[p] = "negative"
Positive(p) == verdict[p] = "positive"

(* C1: when detect_gpu has returned, its triple is the one of the first positive
   probe in the order nvidia-smi, rocm-smi, Intel scan, Apple heuristic, every
   probe before it having been negative: (true, Some(MB / 1024), false), (true,
   None, false), (true, Some(vram), false), (true, Some(available_ram_gb), true);
   and it is (false, None, false) exactly when all four probes were negative. *)
C1_CascadePriority ==
    IsSome(gpu) =>
        LET g == Unwrap(gpu)
        IN  /\ \/ Positive("nvidia")
               \/ Negative("nvidia") /\ Positive("rocm")
               \/ Negative("nvidia") /\ Negative("rocm") /\ Positive("intel")
               \/ Negative("nvidia") /\ Negative("rocm") /\ Negative("intel")
                    /\ verdict["apple"] /= "untried"
            /\ Positive("nvidia") =>
                 /\ Unwrap(output).st = "ok"
                 /\ Len(Unwrap(output).text) = 1
                 /\ g[1] = TRUE /\ g[3] = FALSE /\ IsSome(g[2])
                 /\ Unwrap(g[2]) * MbPerGb = Unwrap(output).text[1] * GbScale
            /\ Negative("nvidia") /\ Positive("rocm") => g = <<TRUE, None, FALSE>>
            /\ Negative("nvidia") /\ Negative("rocm") /\ Positive("intel") =>
                 /\ IsSome(intel_ret) /\ IsSome(Unwrap(intel_ret))
                 /\ g = <<TRUE, Unwrap(intel_ret), FALSE>>
            /\ Negative("nvidia") /\ Negative("rocm") /\ Negative("intel")
                 /\ Positive("apple") =>
                 g = <<TRUE, Some(available_ram_gb), TRUE>>
            /\ g = <<FALSE, None, FALSE>> <=> \A p \in Probes : Negative(p)

(* C1 witness: the last probe of the cascade won, after three negative probes *)
C1_Witness ==
    /\ pc = "returned"
    /\ Negative("nvidia") /\ Negative("rocm") /\ Negative("intel") /\ Positive("apple")
    /\ available_ram_gb > 0
    /\ Unwrap(gpu) = <<TRUE, Some(available_ram_gb), TRUE>>

(* the probe an external call belongs to, as its place in the cascade *)
ProbeOfCall(c) ==
    CASE c = "nvidia-smi" -> 1
      [] c = "rocm-smi" -> 2
      [] c \in {"read_dir", "vendor", "mem_info_vram_total", "lspci"} -> 3
      [] c = "system_profiler" -> 4

CallsInCascadeOrder ==
    /\ \A j, k \in 1..Len(calls) :
          j < k => ProbeOfCall(calls[j]) <= ProbeOfCall(calls[k])
    /\ \A j, k \in 1..Len(calls) :
          j < k /\ calls[j] = calls[k] => calls[j] \in {"vendor", "mem_info_vram_total", "lspci"}
    /\ \A k \in 1..Len(calls) : \A q \in 1..ProbeOfCall(calls[k]) :
          \E j \in 1..k : ProbeOfCall(calls[j]) = q
    /\ \A q \in 1..4 : Positive(Cascade[q]) =>
          /\ calls /= <<>>
          /\ ProbeOfCall(calls[Len(calls)]) = q

(* C2: the external calls of one detect() run are made probe by probe in cascade
   order, no probe skipped and none started twice, and once a probe is positive
   no further process is spawned and no further file is read. *)
C2_SequentialShortCircuit ==
    /\ []CallsInCascadeOrder
    /\ [][(\E p \in Probes : Positive(p)) => calls' = calls]_vars

(* C2 witness: rocm-smi was positive and the run ended after two spawns *)
C2_Witness ==
    /\ pc = "returned"
    /\ Positive("rocm")
    /\ calls = <<"nvidia-smi", "rocm-smi">>

(* an external tool's outcome that is no text: not found, nonzero exit, not UTF-8 *)
Failed(o) == IsSome(o) /\ Unwrap(o).st \in SpawnFailures

(* C3 (steps): a failed or unparsable outcome makes its probe negative and the
   next probe of the cascade is attempted. *)
C3_FailureIsNegative ==
    /\ pc = "nvidia" /\ (Failed(output') \/ Len(Unwrap(output').text) /= 1) =>
          Negative("nvidia")' /\ pc' = "rocm"
    /\ pc = "rocm" /\ Failed(output') => Negative("rocm")' /\ pc' = "intel_read_dir"
    /\ pc = "intel_read_dir" /\ ~ Unwrap(drm').ok => pc' = "intel_fallback"
    /\ pc = "intel_vram" /\ ~ IsSome(Unwrap(drm).entries[idx].vram.num) =>
          pc' = "intel_lspci"
    /\ pc = "intel_lspci" /\ Failed(output') => pc' \in {"intel_vendor", "intel_fallback"}
    /\ pc = "intel_fallback" /\ Failed(output') => Negative("intel")' /\ pc' = "apple"
    /\ pc = "apple" /\ Failed(output') =>
          Negative("apple")' /\ pc' = "build" /\ gpu' = Some(<<FALSE, None, FALSE>>)

(* C3: detect() has no error state: every failure of a probe is a negative result
   followed by the next probe, and, every external call returning, detect() ends
   by returning a snapshot. *)
C3_NeverFails ==
    /\ [][C3_FailureIsNegative]_vars
    /\ [](pc \in {"sysinfo", "nvidia", "rocm", "intel_read_dir", "intel_vendor",
                  "intel_vram", "intel_lspci", "intel_fallback", "apple", "build",
                  "returned"})
    /\ <>(pc = "returned" /\ IsSome(specs))

(* C4: in every snapshot detect() returns, unified_memory implies has_gpu. *)
C4_UnifiedImpliesGpu ==
    IsSome(specs) => (Unwrap(specs).unified_memory => Unwrap(specs).has_gpu)

(* C4 witness: a snapshot with unified memory *)
C4_Witness == IsSome(specs) /\ Unwrap(specs).unified_memory

(* C5: in every snapshot detect() returns, unified_memory implies that gpu_vram_gb
   is set and equals the snapshot's available_ram_gb, and a snapshot without GPU
   has gpu_vram_gb = None. *)
C5_UnifiedPoolIsAvailableRam ==
    IsSome(specs) =>
        LET s == Unwrap(specs)
        IN  /\ s.unified_memory => s.gpu_vram_gb = Some(s.available_ram_gb)
            /\ ~ s.has_gpu => s.gpu_vram_gb = None

(* C5 witness: a unified-memory snapshot whose available RAM differs from its
   total RAM *)
C5_Witness ==
    /\ IsSome(specs)
    /\ Unwrap(specs).unified_memory
    /\ Unwrap(specs).available_ram_gb /= Unwrap(specs).total_ram_gb
    /\ Unwrap(specs).gpu_vram_gb = Some(Unwrap(specs).available_ram_gb)

(* C6: every snapshot detect() returns has available_ram_gb <= total_ram_gb,
   whatever total and available memory the operating system reports. *)
C6_AvailableWithinTotal ==
    IsSome(specs) => Unwrap(specs).available_ram_gb <= Unwrap(specs).total_ram_gb

(* C7: every snapshot detect() returns has total_cpu_cores >= 1, also when
   cpu_name is the "Unknown CPU" sentinel. *)
C7_CoresPositive ==
    IsSome(specs) => Unwrap(specs).total_cpu_cores >= 1

---------------------------------------------------------------------------
(* Properties of the fit engine *)

(* C8: run_mode is CpuOnly exactly when the model has no min_vram_gb or the
   snapshot has no GPU; otherwise it is Gpu exactly when gpu_vram_gb is set,
   nonzero and at least min_vram_gb, and CpuOffload in every other case. *)
C8_RunModeRules ==
    IsSome(fit) =>
        LET f == Unwrap(fit)
            s == Unwrap(specs)
            m == f.model
            gpuFits == /\ IsSome(s.gpu_vram_gb)
                       /\ Unwrap(s.gpu_vram_gb) /= 0
                       /\ Unwrap(s.gpu_vram_gb) >= Unwrap(m.min_vram_gb)
        IN  /\ f.run_mode \in {"Gpu", "CpuOffload", "CpuOnly"}
            /\ f.run_mode = "CpuOnly" <=> (m.min_vram_gb = None \/ ~ s.has_gpu)
            /\ f.run_mode = "Gpu" <=>
                  (m.min_vram_gb /= None /\ s.has_gpu /\ gpuFits)
            /\ (m.min_vram_gb /= None /\ s.has_gpu /\ s.gpu_vram_gb \in {None, Some(0)})
                  => f.run_mode = "CpuOffload"

(* C8 witness: a GPU sharing system memory (gpu_vram_gb = Some(0.0)) and a model
   that needs 4 GB of VRAM: CpuOffload *)
C8_Witness ==
    /\ IsSome(fit)
    /\ Unwrap(specs).has_gpu
    /\ Unwrap(specs).gpu_vram_gb = Some(0)
    /\ Unwrap(fit).model.min_vram_gb = Some(Gb(4))
    /\ Unwrap(fit).run_mode = "CpuOffload"

FitLevels == <<"TooTight", "Marginal", "Good", "Perfect">>
(* how good a fit level is: TooTight 1 < Marginal 2 < Good 3 < Perfect 4 *)
Rank(level) == CHOOSE k \in 1..4 : FitLevels[k] = level

(* C9: fit_level is Perfect when required / available * 100 <= 50, Good when
   <= 75, Marginal when <= 95 and TooTight above; and TooTight when
   memory_available_gb <= 0. *)
C9_FitLevelThresholds ==
    IsSome(fit) =>
        LET f == Unwrap(fit)
            r == f.memory_required_gb
            a == f.memory_available_gb
        IN  /\ a <= 0 => f.fit_level = "TooTight"
            /\ a > 0 =>
                /\ f.fit_level = "Perfect" <=> r * 100 <= 50 * a
                /\ f.fit_level = "Good" <=> (r * 100 > 50 * a /\ r * 100 <= 75 * a)
                /\ f.fit_level = "Marginal" <=> (r * 100 > 75 * a /\ r * 100 <= 95 * a)
                /\ f.fit_level = "TooTight" <=> r * 100 > 95 * a

(* C9 witness: 12 GB required of 24 GB, exactly 50 percent: Perfect; the
   assessment before it had no memory available: TooTight *)
C9_Witness ==
    /\ IsSome(fit) /\ IsSome(prev_fit)
    /\ Unwrap(fit).memory_required_gb = Gb(12)
    /\ Unwrap(fit).memory_available_gb = Gb(24)
    /\ Unwrap(fit).fit_level = "Perfect"
    /\ Unwrap(prev_fit).memory_available_gb = 0
    /\ Unwrap(prev_fit).fit_level = "TooTight"

(* C10: of two assessments with the same memory_available_gb, the one that
   requires no more memory has no higher utilization_pct and no worse
   fit_level. *)
C10_Monotone ==
    (IsSome(fit) /\ IsSome(prev_fit)) =>
        LET f == Unwrap(prev_fit)
            g == Unwrap(fit)
        IN  (/\ f.memory_available_gb = g.memory_available_gb
             /\ f.memory_required_gb <= g.memory_required_gb) =>
                /\ f.utilization_pct <= g.utilization_pct
                /\ Rank(g.fit_level) <= Rank(f.fit_level)

(* C10 witness: 1 GB available; 8 GB required (800 percent), then 16 GB required
   (1600 percent, clamped to 999) *)
C10_Witness ==
    /\ IsSome(fit) /\ IsSome(prev_fit)
    /\ Unwrap(prev_fit).memory_available_gb = Gb(1)
    /\ Unwrap(fit).memory_available_gb = Gb(1)
    /\ Unwrap(prev_fit).memory_required_gb = Gb(8)
    /\ Unwrap(fit).memory_required_gb = Gb(16)
    /\ Unwrap(prev_fit).utilization_pct = 800 * PctScale
    /\ Unwrap(fit).utilization_pct = UtilizationCap * PctScale

---------------------------------------------------------------------------
(* Properties of the renderings and of the device-enumeration probe *)

(* the GPU category a line of display() stands for *)
DisplayCategory(text) ==
    CASE text = "GPU: Not detected" -> "none"
      [] text = "GPU: Apple Silicon (unified memory, {:.2} GB shared)" -> "unified-shared"
      [] text = "GPU: Detected ({:.2} GB VRAM)" -> "vram-known"
      [] text = "GPU: Intel Arc (shared system memory)" -> "intel-arc-shared"
      [] text = "GPU: Detected (VRAM unknown)" -> "vram-unknown"

(* the GPU category a gpu_info of draw_system_bar stands for *)
BarCategory(text) ==
    CASE text = "GPU: none" -> "none"
      [] text = "GPU: Apple Silicon ({:.1} GB shared)" -> "unified-shared"
      [] text = "GPU: {:.1} GB VRAM" -> "vram-known"
      [] text = "GPU: Intel Arc (shared memory)" -> "intel-arc-shared"
      [] text = "GPU: detected" -> "vram-unknown"

(* C11: display() prints one GPU line: not-detected without GPU; unified-shared
   with GPU and unified memory; otherwise VRAM-known for Some(v), v > 0,
   shared-system-memory (Intel Arc) for Some(v), v <= 0, VRAM-unknown for None;
   and the Intel Arc line is printed only when the positive probe was the
   device-enumeration / PCI-listing probe. *)
C11_GpuLine ==
    IsSome(gpu_line) =>
        LET s == Unwrap(specs)
            c == DisplayCategory(Unwrap(gpu_line).text)
        IN  /\ ~ s.has_gpu => c = "none"
            /\ s.has_gpu /\ s.unified_memory => c = "unified-shared"
            /\ s.has_gpu /\ ~ s.unified_memory /\ IsSome(s.gpu_vram_gb) =>
                  IF Unwrap(s.gpu_vram_gb) > 0 THEN c = "vram-known"
                                               ELSE c = "intel-arc-shared"
            /\ s.has_gpu /\ ~ s.unified_memory /\ ~ IsSome(s.gpu_vram_gb) =>
                  c = "vram-unknown"
            /\ c = "intel-arc-shared" => Positive("intel")

(* the entry detect_intel_gpu is at, once /sys/class/drm was listed *)
AtEntry == IsSome(drm) /\ Unwrap(drm).ok /\ idx \in 1..Len(Unwrap(drm).entries)
CurrentEntry == Unwrap(drm).entries[idx]

(* C12: in the device-enumeration probe an entry whose vendor identifier is not
   0x8086 (different, missing or unreadable) never supplies the VRAM value and
   never triggers the lspci lookup. *)
C12_VendorFilter ==
    /\ (AtEntry /\ pc = "intel_lspci") => CurrentEntry.vendor = VendorIntel
    /\ (AtEntry /\ IsSome(intel_ret) /\ IsSome(Unwrap(intel_ret))
          /\ Unwrap(Unwrap(intel_ret)) > 0) => CurrentEntry.vendor = VendorIntel

(* the entries that pass the vendor test of lines 91-95 and the VRAM test of
   lines 100-102 *)
MatchingVram(entries) ==
    { k \in 1..Len(entries) :
        ~ VendorSkips(entries[k].vendor) /\ VramFound(entries[k].vram) }

(* C13: when /sys/class/drm was listed, detect_intel_gpu returns Some(0.0) only if
   no entry of the whole listing that passes the probe's vendor test has a
   parsable nonzero VRAM total; if one has, the probe returns that VRAM size in
   GB, whatever the order of the entries and whatever lspci prints. *)
C13_VramBeforeIntegrated ==
    (IsSome(intel_ret) /\ IsSome(drm) /\ Unwrap(drm).ok) =>
        LET entries == Unwrap(drm).entries
        IN  /\ Unwrap(intel_ret) = Some(0) => MatchingVram(entries) = {}
            /\ MatchingVram(entries) /= {} =>
                  \E k \in MatchingVram(entries) :
                      Unwrap(intel_ret) = Some(BytesToGb(Unwrap(entries[k].vram.num)))

(* both renderings done, of the same snapshot *)
BothRendered == IsSome(gpu_line) /\ IsSome(gpu_info)
SameCategory ==
    DisplayCategory(Unwrap(gpu_line).text) = BarCategory(Unwrap(gpu_info).text)
BothShowZero ==
    Unwrap(gpu_line).arg = Some(0) /\ Unwrap(gpu_info).arg = Some(0)

(* C14: for every snapshot value (has_gpu, unified_memory, gpu_vram_gb) both
   renderings are of the same one of the five GPU categories, and both show 0.0
   as the shared size when unified_memory is true and gpu_vram_gb is None. *)
C14_SameCategory ==
    BothRendered =>
        /\ SameCategory
        /\ (Unwrap(specs).unified_memory /\ ~ IsSome(Unwrap(specs).gpu_vram_gb))
              => BothShowZero

(* C14 witness: a unified-memory GPU without a VRAM value, rendered both ways
   with 0.0 as the shared size *)
C14_Witness ==
    /\ BothRendered
    /\ Unwrap(specs).has_gpu /\ Unwrap(specs).unified_memory
    /\ ~ IsSome(Unwrap(specs).gpu_vram_gb)
    /\ DisplayCategory(Unwrap(gpu_line).text) = "unified-shared"
    /\ BothShowZero
=============================================================================
